---- MODULE Spec2Model ----
(***************************************************************************)
(* Model of the three resource handlers of the Men&Mice Ansible            *)
(* collection: plugins/modules/props.py, user.py and zone.py.              *)
(*                                                                         *)
(* Each handler (run_module) is one linear sequence of remote calls.  A    *)
(* run is one action: it reads the platform, decides, issues its calls in  *)
(* order and leaves a result.  The state keeps the platform and the        *)
(* record of the last run: its parameters, the calls it issued (reads      *)
(* included), its result dict and how it ended (exit_json or fail_json).   *)
(*                                                                         *)
(* The three handlers share no state: a behaviour is the history of the    *)
(* runs of one handler against the platform.                               *)
(***************************************************************************)
EXTENDS Integers, Sequences, FiniteSets, TLC

VARIABLES
    module,     \* the handler whose runs this behaviour follows
    propdefs,   \* platform: collection path -> property definition, or Absent
    user,       \* platform: the user account, or Absent
    zone,       \* platform: the DNS zone, or Absent
    listing,    \* platform: the fields of the membership records it lists
    run         \* the last run, or Idle

vars == <<module, propdefs, user, zone, listing, run>>

----------------------------------------------------------------------------
(* Python values.  A parameter that may be None, a string, a list or a     *)
(* bool is tagged, so that truthiness and == are those of Python.          *)

PyNone == [t |-> "none"]
PyStr(s) == [t |-> "str", s |-> s]
PyList(l) == [t |-> "list", l |-> l]
PyBool(b) == [t |-> "bool", b |-> b]

\* Python truthiness: None, "", [] and False are falsy.
Truthy(v) ==
    CASE v.t = "none" -> FALSE
      [] v.t = "str"  -> v.s # ""
      [] v.t = "list" -> v.l # <<>>
      [] v.t = "bool" -> v.b

\* The platform has no resource of that name.
Absent == [t |-> "absent"]

\* No run has been made, or the last one has returned to its caller.
Idle == [status |-> "idle"]

\* The audit comment every mutating body carries.
SaveComment == "Ansible API"

\* d.get(k, None) on a dict modelled as a function.
DictGet(d, k) == IF k \in DOMAIN d THEN d[k] ELSE PyNone

----------------------------------------------------------------------------
(* The transport.  doapi(url, method, provider, body) issues one call and  *)
(* returns a dict: on success "message" carries the response payload and   *)
(* "changed" is true; on a rejection "warnings" carries the error and      *)
(* "changed" is false.  Whether a call is rejected is the platform's       *)
(* choice: `failed` is an input of the run.                                *)

NoWarnings == ""
Rejected == "rejected by the platform"

\* One entry of the call log.
Call(method, url, body, failed) ==
    [verb |-> method, url |-> url, body |-> body, failed |-> failed]

\* The response payload of a call that succeeded.
Payload(method, url) == [verb |-> method, url |-> url]

\* A plain text message.
Text(s) == [text |-> s]

doapi(url, method, databody, failed) ==
    IF failed
    THEN [changed |-> FALSE, message |-> Text(""), warnings |-> Rejected]
    ELSE [changed |-> TRUE, message |-> Payload(method, url),
          warnings |-> NoWarnings]

\* result = {"changed": False, "message": ""}
SeedResult == [changed |-> FALSE, message |-> Text(""), warnings |-> NoWarnings]

\* module.exit_json(**result): the run ends normally with this result.
exit_json(result) == [outcome |-> "ok", result |-> result]

\* module.fail_json(msg=...): the run ends failed; changed is not set.
fail_json(msg) ==
    [outcome |-> "failed",
     result |-> [changed |-> FALSE, message |-> Text(msg),
                 warnings |-> NoWarnings]]

IsMutating(c) == c.verb \in {"POST", "PUT", "DELETE"}

\* The failure oracle of a run: which of its mutating calls, counted from
\* 1 in the order they are issued, the platform rejects.
MaxFailures == 1

FailSets(n) == {F \in SUBSET (1..n) : Cardinality(F) <= MaxFailures}

----------------------------------------------------------------------------
(* props.py                                                                *)

PROPTYPES == <<"text", "yesno", "ipaddress", "number">>

DESTTYPES == <<"dnsserver", "dhcpserver", "zone", "iprange", "ipaddress",
               "device", "interface", "cloudnet", "cloudaccount">>

DEST2URL ==
    [d \in {DESTTYPES[i] : i \in DOMAIN DESTTYPES} |->
        CASE d = "dnsserver"    -> "DNSServers"
          [] d = "dhcpserver"   -> "DHCPServers"
          [] d = "zone"         -> "DNSZones"
          [] d = "iprange"      -> "Ranges"
          [] d = "ipaddress"    -> "IPAMRecords"
          [] d = "device"       -> "Devices"
          [] d = "interface"    -> "Interfaces"
          [] d = "cloudnet"     -> "CloudNetworks"
          [] d = "cloudaccount" -> "CloudServiceAccounts"]

TYPE2TYPE ==
    [t \in {PROPTYPES[i] : i \in DOMAIN PROPTYPES} |->
        CASE t = "text"      -> "String"
          [] t = "yesno"     -> "Boolean"
          [] t = "ipaddress" -> "IPAddress"
          [] t = "number"    -> "Integer"]

\* The parameters the property runs are drawn from.  name, system,
\* readonly, multiline and defaultvalue keep one value.
PropsDests == {"zone"}
PropsListItems == {<<>>, <<"Reykjavik">>}
PropsCloudTags == {<<>>, <<"aws">>}

PropsParams ==
    [check_mode : BOOLEAN,
     state : {"present", "absent"},
     name : {"location"},
     dest : PropsDests,
     proptype : {PROPTYPES[i] : i \in DOMAIN PROPTYPES},
     mandatory : BOOLEAN,
     system : {FALSE},
     readonly : {FALSE},
     multiline : {FALSE},
     defaultvalue : {""},
     cloudtags : PropsCloudTags,
     listitems : PropsListItems,
     updateexisting : BOOLEAN]

\* "%s/1/PropertyDefinitions/%s" % (DEST2URL[dest], name)
PropsUrl(p) == <<DEST2URL[p.dest], "1", "PropertyDefinitions", p.name>>

\* "%s/1/PropertyDefinitions" % DEST2URL[dest]
PropsCollectionUrl(p) == <<DEST2URL[p.dest], "1", "PropertyDefinitions">>

\* The platform's answer to GET <dest>/1/PropertyDefinitions/<name>:
\* warnings when there is no such definition, else the definition under
\* result.propertyDefinition.
PropsGet(defs, p) ==
    IF defs[DEST2URL[p.dest]] = Absent
    THEN [changed |-> FALSE, message |-> Text(""), warnings |-> Rejected]
    ELSE [changed |-> TRUE,
          message |-> [result |->
                         [propertyDefinition |-> defs[DEST2URL[p.dest]]]],
          warnings |-> NoWarnings]

\* PropsCarriesLists with the type not looked at.
PropsCarriesListsAlways(p) == TRUE

\* Whether listItems and cloudTags go into the payload.
PropsCarriesLists(p) == p.proptype = "text"

\* databody["propertyDefinition"] as built for POST and PUT.
PropsDefinition(p) ==
    LET base == [name |-> p.name,
                 type |-> TYPE2TYPE[p.proptype],
                 system |-> p.system,
                 mandatory |-> p.mandatory,
                 readOnly |-> p.readonly,
                 multiLine |-> p.multiline,
                 defaultValue |-> p.defaultvalue]
    IN  IF PropsCarriesLists(p)
        THEN base @@ [cloudTags |-> p.cloudtags, listItems |-> p.listitems]
        ELSE base

PropsDatabody(p) == [propertyDefinition |-> PropsDefinition(p)]

\* for k in databody: if databody[k] != curprop[k]: break / else: no change.
\* databody has the one key "propertyDefinition": the two definitions are
\* compared as whole dicts.
PropsUpToDate(databody, curprop) ==
    \A k \in DOMAIN databody : databody[k] = curprop[k]

\* if module.params.get("updateexisting"): databody["updateExisting"] =
\* module.params.get("updatexisting")   -- a key the params do not have.
PropsUpdateExisting(p, databody) ==
    IF p.updateexisting
    THEN databody @@ [updateExisting |-> PyNone]
    ELSE databody

\* The platform applying a POST of a definition: the types that carry no
\* lists are stored, and returned, with empty ones.
PlatformCreateProp(pd) ==
    pd @@ [cloudTags |-> <<>>, listItems |-> <<>>]

\* The platform applying a PUT: the fields supplied replace the stored ones.
PlatformUpdateProp(cur, pd) == pd @@ cur

\* PropsDeleteRequired with the lookup's answer ignored: the state=absent
\* run deletes whatever the GET said.
PropsDeleteAlways(resp) == TRUE

\* if not resp.get("warnings", None): the property is present and the
\* state=absent run deletes it.
PropsDeleteRequired(resp) == resp.warnings = NoWarnings

\* if resp.get("warnings", None): not there yet, create the property.
PropsCreateRequired(resp) == resp.warnings # NoWarnings

\* CheckModeExit with the mode not looked at: the run goes on.
CheckModeIgnored(p) == FALSE

\* if module.check_mode: module.exit_json(**result)
CheckModeExit(p) == p.check_mode

\* What a run's lookup saw when the run ended before looking.
NotLooked == [t |-> "notlooked"]

\* One run of props.py.  `failed`: the platform rejects the mutating call.
\* Yields the calls issued, how the run ended, what the lookup saw and the
\* platform afterwards.
PropsRunModule(defs, p, failed) ==
    LET key == DEST2URL[p.dest]
        get == Call("GET", PropsUrl(p), <<>>, FALSE)
        resp == PropsGet(defs, p)
        databody == PropsDatabody(p)
        Mutate(method, url, body, after) ==
            [calls |-> <<get, Call(method, url, body, failed)>>,
             end |-> exit_json(doapi(url, method, body, failed)),
             seen |-> defs[key],
             defs |-> IF failed THEN defs ELSE [defs EXCEPT ![key] = after]]
        NoChange ==
            [calls |-> <<get>>, end |-> exit_json(SeedResult),
             seen |-> defs[key], defs |-> defs]
    IN  IF CheckModeExit(p) THEN
            [calls |-> <<>>, end |-> exit_json(SeedResult),
             seen |-> NotLooked, defs |-> defs]
        ELSE IF p.state = "absent" THEN
            IF PropsDeleteRequired(resp)
            THEN Mutate("DELETE", PropsUrl(p), [saveComment |-> SaveComment],
                        Absent)
            ELSE NoChange
        ELSE IF PropsCreateRequired(resp) THEN
            Mutate("POST", PropsCollectionUrl(p),
                   databody @@ [saveComment |-> SaveComment],
                   PlatformCreateProp(databody.propertyDefinition))
        ELSE IF PropsUpToDate(databody, resp.message.result) THEN
            NoChange
        ELSE
            Mutate("PUT", PropsUrl(p),
                   PropsUpdateExisting(p, databody)
                       @@ [saveComment |-> SaveComment],
                   PlatformUpdateProp(defs[key], databody.propertyDefinition))

----------------------------------------------------------------------------
(* user.py                                                                 *)

\* The platform's catalogs of groups and roles, in the order getrefs
\* lists them.  A ref is a path fragment such as Groups/1, and a path is
\* the sequence of its segments.
NumGroups == 2
NumRoles == 1

GroupCatalog ==
    [i \in 1..NumGroups |-> [ref |-> <<"Groups", ToString(i)>>, name |-> <<"group", i>>]]

RoleCatalog ==
    [i \in 1..NumRoles |-> [ref |-> <<"Roles", ToString(i)>>, name |-> <<"role", i>>]]

\* Names no catalog holds.
UnknownGroup == <<"group", 0>>
UnknownRole == <<"role", 0>>

Range(s) == {s[i] : i \in DOMAIN s}

\* x in lst
InList(x, lst) == \E i \in DOMAIN lst : lst[i] = x

\* The ref the platform gives the user it creates.
UserName == "johnd"
UserRef == <<"Users", "31">>

\* str.lower() and str.upper() on the authentication types drawn.
Lower(s) == CASE s = "internal" -> "internal"
              [] s = "Internal" -> "internal"
              [] s = "ad" -> "ad"
              [] s = "AD" -> "ad"

Upper(s) == CASE s = "internal" -> "INTERNAL"
              [] s = "Internal" -> "INTERNAL"
              [] s = "ad" -> "AD"
              [] s = "AD" -> "AD"

\* The parameters the user runs are drawn from.  groups and roles are
\* lists the code only tests for emptiness and membership: a set of names,
\* empty when the parameter is omitted or [].  A check-mode run and a
\* state=absent run read neither password nor authentication_type; a run
\* that deletes the user or stops at a missing argument reads groups and
\* roles only to fetch the catalogs.
UserParams ==
    {p \in [check_mode : BOOLEAN,
            state : {"present", "absent"},
            username : {UserName},
            password : {PyNone, PyStr("secret")},
            full_name : {"John Doe"},
            desc : {PyNone},
            email : {PyNone},
            authentication_type : {PyNone, PyStr("internal"), PyStr("AD")},
            groups : SUBSET ({GroupCatalog[i].name : i \in 1..NumGroups}
                                \cup {UnknownGroup}),
            roles : SUBSET ({RoleCatalog[i].name : i \in 1..NumRoles}
                                \cup {UnknownRole})] :
        /\ (p.check_mode \/ p.state = "absent")
              => (p.password = PyNone /\ p.authentication_type = PyNone)
        /\ p.password = PyNone => p.authentication_type # PyStr("AD")
        /\ (p.check_mode \/ p.state = "absent" \/ p.password = PyNone
                \/ p.authentication_type = PyNone)
              => (p.groups \subseteq {UnknownGroup, GroupCatalog[1].name}
                    /\ p.roles \subseteq {UnknownRole})}

\* The membership record of the platform for a catalog entry.
Member(entry, objType) ==
    [ref |-> entry.ref, objType |-> objType, name |-> entry.name]

\* The membership record the platform lists for a catalog entry.  Which
\* fields it has is the platform's: the three the desired side is built
\* with, those without objType, or those and one more.
MemberShapes == {"plain", "bare", "extended"}

ListedMember(entry, objType) ==
    CASE listing = "plain"    -> Member(entry, objType)
      [] listing = "bare"     -> [ref |-> entry.ref, name |-> entry.name]
      [] listing = "extended" ->
            Member(entry, objType) @@ [description |-> ""]

\* getrefs("Users"): the users the platform lists, each with its groups
\* and roles as membership records in catalog order.
UsersList(u) ==
    IF u = Absent THEN <<>>
    ELSE <<[ref |-> u.ref, name |-> u.name,
            authenticationType |-> u.authenticationType,
            groups |-> SelectSeq([i \in 1..NumGroups |->
                                     ListedMember(GroupCatalog[i], "Groups")],
                                 LAMBDA m : m.ref \in u.groups),
            roles |-> SelectSeq([i \in 1..NumRoles |->
                                    ListedMember(RoleCatalog[i], "Roles")],
                                LAMBDA m : m.ref \in u.roles)]>>

\* The catalogs a run reads before it decides, in order: Users always,
\* Groups and Roles when the parameter is non-empty.
UserReads(p) ==
    <<"Users">>
    \o (IF p.groups # {} THEN <<"Groups">> ELSE <<>>)
    \o (IF p.roles # {} THEN <<"Roles">> ELSE <<>>)

\* for user in users: if user["name"] == username: ... break
FindUser(users, name) ==
    IF \E i \in DOMAIN users : users[i].name = name
    THEN users[CHOOSE i \in DOMAIN users :
                 /\ users[i].name = name
                 /\ \A j \in 1..(i-1) : users[j].name # name]
    ELSE Absent

\* UserValidate without the two catalog checks.
UserValidateArgumentsOnly(p) ==
    IF ~Truthy(p.password)
        THEN "missing required argument: password"
    ELSE IF ~Truthy(p.authentication_type)
        THEN "missing required argument: authentication_type"
    ELSE ""

\* The first fatal condition of a state=present run, or "" when the
\* parameters pass: password, authentication_type, group names, role names.
UserValidate(p) ==
    IF ~Truthy(p.password)
        THEN "missing required argument: password"
    ELSE IF ~Truthy(p.authentication_type)
        THEN "missing required argument: authentication_type"
    ELSE IF p.groups # {}
            /\ \E n \in p.groups : ~InList(n, [i \in 1..NumGroups |->
                                                  GroupCatalog[i].name])
        THEN "Requested a non existing group"
    ELSE IF p.roles # {}
            /\ \E n \in p.roles : ~InList(n, [i \in 1..NumRoles |->
                                                 RoleCatalog[i].name])
        THEN "Requested a non existing role"
    ELSE ""

\* wanted_groups / wanted_roles: the catalog entries whose name is asked
\* for, as {ref, objType, name}, in catalog order.
Wanted(catalog, names, objType) ==
    IF names = {} THEN <<>>
    ELSE SelectSeq([i \in DOMAIN catalog |-> Member(catalog[i], objType)],
                   LAMBDA m : m.name \in names)

\* Fix capitalization for the authenticationType.
AuthType(p) ==
    IF Lower(p.authentication_type.s) = "internal"
    THEN "Internal"
    ELSE Upper(p.authentication_type.s)

\* MemberVerb with the first test not looking at the current memberships:
\* every wanted element is added.
MemberVerbAddsAllWanted(x, wanted, current) ==
    IF InList(x, wanted) THEN "PUT"
    ELSE IF ~InList(x, wanted) /\ InList(x, current) THEN "DELETE"
    ELSE ""

\* The verb the update loop picks for one element of wanted + current.
MemberVerb(x, wanted, current) ==
    IF InList(x, wanted) /\ ~InList(x, current) THEN "PUT"
    ELSE IF ~InList(x, wanted) /\ InList(x, current) THEN "DELETE"
    ELSE ""

\* MemberOps with the loop running over the wanted elements only.
MemberOpsWantedOnly(wanted, current) ==
    LET acts == SelectSeq(wanted, LAMBDA x : MemberVerb(x, wanted, current) # "")
    IN  [i \in 1..Len(acts) |->
            [verb |-> MemberVerb(acts[i], wanted, current), item |-> acts[i]]]

\* MemberOps leaving the current memberships alone when none is wanted.
MemberOpsNoneWantedKeeps(wanted, current) ==
    LET all == IF wanted = <<>> THEN <<>> ELSE wanted \o current
        acts == SelectSeq(all, LAMBDA x : MemberVerb(x, wanted, current) # "")
    IN  [i \in 1..Len(acts) |->
            [verb |-> MemberVerb(acts[i], wanted, current), item |-> acts[i]]]

\* for thisgrp in wanted_groups + user_data["groups"]: the elements an
\* operation is issued for, in order, each with its verb.
MemberOps(wanted, current) ==
    LET all == wanted \o current
        acts == SelectSeq(all, LAMBDA x : MemberVerb(x, wanted, current) # "")
    IN  [i \in 1..Len(acts) |->
            [verb |-> MemberVerb(acts[i], wanted, current), item |-> acts[i]]]

\* GroupUrl in the order of the role calls: user first, then group.
GroupUrlUserFirst(grp, user_ref) == user_ref \o grp.ref

\* "%s/%s" % (thisgrp["ref"], user_ref): group first, then user.
GroupUrl(grp, user_ref) == grp.ref \o user_ref

\* "%s/%s" % (user_ref, thisrole["ref"]): user first, then role.
RoleUrl(role, user_ref) == user_ref \o role.ref

\* The mutating operations of the update path, in order: the user PUT,
\* then the group operations, then the role operations.
UserUpdateOps(p, user_data) ==
    LET wg == Wanted(GroupCatalog, p.groups, "Groups")
        wr == Wanted(RoleCatalog, p.roles, "Roles")
        gops == MemberOps(wg, user_data.groups)
        rops == MemberOps(wr, user_data.roles)
    IN  <<[verb |-> "PUT", url |-> <<"Users">> \o user_data.ref, kind |-> "user",
           body |-> [ref |-> user_data.ref,
                     saveComment |-> SaveComment,
                     properties |->
                        <<[name |-> "name", value |-> PyStr(p.username)],
                          [name |-> "password", value |-> p.password],
                          [name |-> "fullName", value |-> PyStr(p.full_name)],
                          [name |-> "authenticationType",
                           value |-> PyStr(AuthType(p))]>>]]>>
        \o [i \in 1..Len(gops) |->
               [verb |-> gops[i].verb,
                url |-> GroupUrl(gops[i].item, user_data.ref),
                kind |-> "group",
                body |-> [saveComment |-> SaveComment]]]
        \o [i \in 1..Len(rops) |->
               [verb |-> rops[i].verb,
                url |-> RoleUrl(rops[i].item, user_data.ref),
                kind |-> "role",
                body |-> [saveComment |-> SaveComment]]]

\* UserCreateOps with the role adds issued before the group adds.
UserCreateOpsRolesFirst(p) ==
    LET wg == Wanted(GroupCatalog, p.groups, "Groups")
        wr == Wanted(RoleCatalog, p.roles, "Roles")
    IN  <<[verb |-> "POST", url |-> <<"Users">>, kind |-> "user",
           body |-> [saveComment |-> SaveComment,
                     user |-> [name |-> p.username,
                               password |-> p.password,
                               fullName |-> p.full_name,
                               description |-> p.desc,
                               email |-> p.email,
                               authenticationType |-> AuthType(p),
                               groups |-> wg,
                               roles |-> wr]]]>>
        \o [i \in 1..Len(wr) |->
               [verb |-> "PUT", url |-> RoleUrl(wr[i], UserRef),
                kind |-> "role", body |-> [saveComment |-> SaveComment]]]
        \o [i \in 1..Len(wg) |->
               [verb |-> "PUT", url |-> GroupUrl(wg[i], UserRef),
                kind |-> "group", body |-> [saveComment |-> SaveComment]]]

\* The mutating operations of the create path, in order: the POST, then
\* one add per wanted group, then one add per wanted role.
UserCreateOps(p) ==
    LET wg == Wanted(GroupCatalog, p.groups, "Groups")
        wr == Wanted(RoleCatalog, p.roles, "Roles")
    IN  <<[verb |-> "POST", url |-> <<"Users">>, kind |-> "user",
           body |-> [saveComment |-> SaveComment,
                     user |-> [name |-> p.username,
                               password |-> p.password,
                               fullName |-> p.full_name,
                               description |-> p.desc,
                               email |-> p.email,
                               authenticationType |-> AuthType(p),
                               groups |-> wg,
                               roles |-> wr]]]>>
        \o [i \in 1..Len(wg) |->
               [verb |-> "PUT", url |-> GroupUrl(wg[i], UserRef),
                kind |-> "group", body |-> [saveComment |-> SaveComment]]]
        \o [i \in 1..Len(wr) |->
               [verb |-> "PUT", url |-> RoleUrl(wr[i], UserRef),
                kind |-> "role", body |-> [saveComment |-> SaveComment]]]

\* The platform applying one user operation that it did not reject.
PlatformApplyUserOp(u, op) ==
    IF op.kind = "user"
    THEN CASE op.verb = "POST" ->
                [ref |-> UserRef, name |-> op.body.user.name,
                 authenticationType |-> op.body.user.authenticationType,
                 groups |-> {}, roles |-> {}]
           [] op.verb = "PUT" ->
                [u EXCEPT !.authenticationType = op.body.properties[4].value.s]
           [] op.verb = "DELETE" -> Absent
    ELSE IF op.kind = "group"
    THEN IF op.verb = "PUT"
         THEN [u EXCEPT !.groups = @ \cup {SubSeq(op.url, 1, 2)}]
         ELSE [u EXCEPT !.groups = @ \ {SubSeq(op.url, 1, 2)}]
    ELSE IF op.verb = "PUT"
         THEN [u EXCEPT !.roles = @ \cup {SubSeq(op.url, 3, 4)}]
         ELSE [u EXCEPT !.roles = @ \ {SubSeq(op.url, 3, 4)}]

\* The platform after the operations ops[i..], those in `fails` rejected.
RECURSIVE PlatformApplyUserOps(_, _, _, _)
PlatformApplyUserOps(u, ops, fails, i) ==
    IF i > Len(ops) THEN u
    ELSE PlatformApplyUserOps(
             IF i \in fails THEN u ELSE PlatformApplyUserOp(u, ops[i]),
             ops, fails, i + 1)

\* The call log of the operations ops[1..n].
OpCalls(ops, fails, n) ==
    [i \in 1..n |-> Call(ops[i].verb, ops[i].url, ops[i].body, i \in fails)]

\* The response of operation i.
OpResponse(ops, fails, i) ==
    doapi(ops[i].url, ops[i].verb, ops[i].body, i \in fails)

\* How many of the operations of the update path are issued: a response
\* is never inspected, so all of them.
UserUpdateIssued(ops, fails) == Len(ops)

\* UserUpdateResult with changed left as the last response has it.
UserUpdateResultAsReturned(ops, fails) == OpResponse(ops, fails, Len(ops))

\* The result of the update path: the response of the last operation, with
\* changed forced to False after the user PUT and to True after each
\* membership operation.
UserUpdateResult(ops, fails) ==
    LET n == UserUpdateIssued(ops, fails)
    IN  [OpResponse(ops, fails, n) EXCEPT !.changed = (ops[n].kind # "user")]

\* How many of the operations of the create path are issued: the POST's
\* warnings end the run, no later response is inspected.
UserCreateIssued(ops, fails) == IF 1 \in fails THEN 1 ELSE Len(ops)

\* UserDeleteOps with a body that names the user and nothing else.
UserDeleteOpsNoComment(user_data) ==
    <<[verb |-> "DELETE", url |-> <<"Users">> \o user_data.ref, kind |-> "user",
       body |-> [ref |-> user_data.ref]]>>

\* The state=absent branch for a user that exists.
UserDeleteOps(user_data) ==
    <<[verb |-> "DELETE", url |-> <<"Users">> \o user_data.ref, kind |-> "user",
       body |-> [saveComment |-> SaveComment]]>>

\* The mutating operations a run would issue if none were rejected; this
\* bounds the failure oracle.
UserPlannedOps(u, p) ==
    LET user_data == FindUser(UsersList(u), p.username)
    IN  IF CheckModeExit(p) THEN <<>>
        ELSE IF p.state = "absent"
        THEN IF user_data = Absent THEN <<>> ELSE UserDeleteOps(user_data)
        ELSE IF UserValidate(p) # "" THEN <<>>
        ELSE IF user_data = Absent THEN UserCreateOps(p)
        ELSE UserUpdateOps(p, user_data)

\* One run of user.py.  readFail: the catalog whose listing fails, or
\* "none".  fails: the mutating calls the platform rejects.
UserRunModule(u, p, readFail, fails) ==
    LET reads == UserReads(p)
        nreads == IF readFail = "none" THEN Len(reads)
                  ELSE CHOOSE i \in DOMAIN reads : reads[i] = readFail
        gets == [i \in 1..nreads |->
                    Call("GET", <<reads[i]>>, <<>>, reads[i] = readFail)]
        user_data == FindUser(UsersList(u), p.username)
        user_exists == user_data # Absent
        ops == UserPlannedOps(u, p)
        Done(n, end) ==
            [calls |-> gets \o OpCalls(ops, fails, n),
             end |-> end,
             seen |-> user_data,
             user |-> PlatformApplyUserOps(u, SubSeq(ops, 1, n), fails, 1)]
    IN  IF CheckModeExit(p) THEN
            [calls |-> <<>>, end |-> exit_json(SeedResult),
             seen |-> NotLooked, user |-> u]
        ELSE IF readFail # "none" THEN
            [calls |-> gets, end |-> fail_json("Collecting failed"),
             seen |-> NotLooked, user |-> u]
        ELSE IF p.state = "present" THEN
            IF UserValidate(p) # "" THEN
                [calls |-> gets, end |-> fail_json(UserValidate(p)),
                 seen |-> user_data, user |-> u]
            ELSE IF user_exists THEN
                Done(UserUpdateIssued(ops, fails),
                     exit_json(UserUpdateResult(ops, fails)))
            ELSE IF 1 \in fails THEN
                Done(UserCreateIssued(ops, fails), fail_json(Rejected))
            ELSE
                Done(UserCreateIssued(ops, fails),
                     exit_json(OpResponse(ops, fails, Len(ops))))
        ELSE IF user_exists THEN
            Done(1, exit_json(OpResponse(ops, fails, 1)))
        ELSE
            [calls |-> gets,
             end |-> exit_json([changed |-> FALSE,
                                message |-> Text("User doesn't exist"),
                                warnings |-> NoWarnings]),
             seen |-> user_data, user |-> u]

----------------------------------------------------------------------------
(* zone.py                                                                 *)

\* The nameservers the platform knows, the view of each, and the ref the
\* platform gives the zone it creates.
NameServers == {"ns1.example.com"}
DnsViewRef == <<"DNSViews", "1">>
ZoneRef == <<"DNSZones", "7">>

\* The fields of a zone the platform keeps at top level; any other
\* property name is a custom property.
ZoneFields == {"ref", "name", "dnsViewRef", "dynamic", "authority", "type",
               "masters", "adIntegrated", "adReplicationType", "adPartition"}

\* str.capitalize() on the server types.
Capitalize(s) == CASE s = "master"  -> "Master"
                   [] s = "slave"   -> "Slave"
                   [] s = "stub"    -> "Stub"
                   [] s = "forward" -> "Forward"

\* customproperties is a dict: here its items() in order, <<>> when the
\* parameter is omitted or empty.
ZoneCustomProps ==
    {<<>>,
     <<[name |-> "location", value |-> PyStr("Reykjavik")]>>,
     <<[name |-> "location", value |-> PyStr("")]>>,
     <<[name |-> "name", value |-> PyStr("other.example.com")]>>}

\* The parameters the zone runs are drawn from.  The argument spec names
\* the AD flag adintegrate.
ZoneParams ==
    {p \in [check_mode : BOOLEAN,
            state : {"present", "absent"},
            name : {PyStr("example.com")},
            nameserver : {PyNone, PyStr("ns1.example.com"),
                          PyStr("ns9.example.com")},
            authority : {PyNone},
            servtype : {"master", "slave"},
            dynamic : {PyBool(FALSE)},
            masters : {PyNone, PyList(<<>>), PyList(<<"10.0.0.1">>)},
            adintegrate : {PyNone, PyBool(TRUE)},
            adreplicationtype : {PyNone, PyStr("Domain")},
            adpartition : {PyNone},
            customproperties : ZoneCustomProps] :
        p.check_mode =>
            /\ p.masters = PyNone /\ p.adintegrate = PyNone
            /\ p.adreplicationtype = PyNone /\ p.customproperties = <<>>}

\* get_single_refs("DNSViews?dnsServerRef=<nameserver>"): marked invalid
\* when the platform has no such nameserver.
ViewLookup(nameserver) ==
    IF nameserver.s \in NameServers
    THEN [invalid |-> FALSE, dnsViews |-> <<[ref |-> DnsViewRef]>>]
    ELSE [invalid |-> TRUE, dnsViews |-> <<>>]

\* get_single_refs("DNSZones?filter=<name>&dnsViewRef=<view>"): the zone of
\* that name on that view, if any.
ZoneLookup(z, name) ==
    IF z # Absent /\ z.name = name
    THEN [totalResults |-> 1, dnsZones |-> <<z>>, dnsZone |-> z]
    ELSE [totalResults |-> 0, dnsZones |-> <<>>]

\* ZoneMastersIncluded with the server type not looked at.
ZoneMastersWhenGiven(servtype, masters) == masters # PyNone

\* if module.params["servtype"] != "Master" and masters is not None
ZoneMastersIncluded(servtype, masters) ==
    servtype # "Master" /\ masters # PyNone

\* The properties list of the PUT body of an existing zone.
ZoneUpdateProperties(p) ==
    LET servtype == Capitalize(p.servtype)
    IN  <<[name |-> "type", value |-> PyStr(servtype)]>>
        \o (IF ZoneMastersIncluded(servtype, p.masters)
            THEN <<[name |-> "masters", value |-> p.masters]>> ELSE <<>>)
        \o (IF Truthy(DictGet(p, "adIntegrated"))
            THEN <<[name |-> "adIntegrated",
                    value |-> DictGet(p, "adintegrated")]>> ELSE <<>>)
        \o (IF Truthy(p.adreplicationtype)
            THEN <<[name |-> "adReplicationType",
                    value |-> p.adreplicationtype]>> ELSE <<>>)
        \o (IF Truthy(p.adpartition)
            THEN <<[name |-> "adPartition", value |-> p.adpartition]>>
            ELSE <<>>)
        \o p.customproperties

\* cur = resp["dnsZone"].get(name, None); if not cur: cur =
\* resp["dnsZone"]["customProperties"].get(name, None)
ZoneCurrent(dnsZone, name) ==
    LET cur == DictGet(dnsZone, name)
    IN  IF ~Truthy(cur) THEN DictGet(dnsZone.customProperties, name) ELSE cur

\* Find out if a change is needed.
ZoneChange(props, dnsZone) ==
    \E i \in DOMAIN props : props[i].value # ZoneCurrent(dnsZone, props[i].name)

\* The POST body of a zone that does not exist.
ZoneCreateBody(p) ==
    LET servtype == Capitalize(p.servtype)
        dnsZone ==
            [name |-> p.name, dnsViewRef |-> DnsViewRef[2],
             dynamic |-> p.dynamic, authority |-> p.authority,
             type |-> PyStr(servtype)]
            @@ (IF Truthy(DictGet(p, "adintegrated"))
                THEN [adIntegrated |-> DictGet(p, "adintegrated")] ELSE <<>>)
            @@ (IF Truthy(p.adreplicationtype)
                THEN [adReplicationtype |-> p.adreplicationtype] ELSE <<>>)
            @@ (IF Truthy(p.adpartition)
                THEN [adPartition |-> p.adpartition] ELSE <<>>)
            @@ (IF p.customproperties # <<>>
                THEN [customProperties |-> p.customproperties] ELSE <<>>)
    IN  [saveComment |-> SaveComment, dnsZone |-> dnsZone]
        @@ (IF ZoneMastersIncluded(servtype, p.masters)
            THEN [masters |-> p.masters] ELSE <<>>)

\* A list of {name, value} as the map the platform keeps.
RECURSIVE PropsToMap(_)
PropsToMap(props) ==
    IF props = <<>> THEN <<>>
    ELSE (Head(props).name :> Head(props).value) @@ PropsToMap(Tail(props))

\* The platform applying a POST: the zone it keeps.
PlatformCreateZone(body) ==
    [customProperties |->
        IF "customProperties" \in DOMAIN body.dnsZone
        THEN PropsToMap(body.dnsZone.customProperties) ELSE <<>>,
     ref |-> ZoneRef]
    @@ (IF "masters" \in DOMAIN body THEN [masters |-> body.masters] ELSE <<>>)
    @@ body.dnsZone

\* The platform applying a PUT: each property replaces the top-level field
\* of its name, or else the custom property of its name.
RECURSIVE PlatformUpdateZone(_, _)
PlatformUpdateZone(z, props) ==
    IF props = <<>> THEN z
    ELSE LET h == Head(props)
             z1 == IF h.name \in ZoneFields
                   THEN (h.name :> h.value) @@ z
                   ELSE [z EXCEPT !.customProperties =
                                     (h.name :> h.value) @@ @]
         IN  PlatformUpdateZone(z1, Tail(props))

\* The fields of a zone the platform accepts no write to.
ZoneReadOnlyFields == {"name", "authority", "dynamic"}

\* The platform rejects a PUT that writes a read-only field.
PlatformRejectsZoneUpdate(props) ==
    \E i \in DOMAIN props : props[i].name \in ZoneReadOnlyFields

\* resp.get("totalResults", 1) == 0: the zone does not exist, the
\* state=absent run just returns.
ZoneAlreadyAbsent(resp) == resp.totalResults = 0

\* resp.get("totalResults", 1) != 0: the zone exists, update it.
ZoneExists(resp) == resp.totalResults # 0

\* One run of zone.py.  `failed`: the platform rejects the mutating call.
ZoneRunModule(z, p, failed) ==
    LET viewGet == Call("GET", <<"DNSViews", p.nameserver.s>>, <<>>, FALSE)
        zoneGet == Call("GET", <<"DNSZones", p.name.s, DnsViewRef[2]>>, <<>>,
                        FALSE)
        views == ViewLookup(p.nameserver)
        resp == ZoneLookup(z, p.name)
        found == IF resp.totalResults = 0 THEN Absent ELSE resp.dnsZones[1]
        MutateOr(method, url, body, after, rejected) ==
            [calls |-> <<viewGet, zoneGet,
                         Call(method, url, body, failed \/ rejected)>>,
             end |-> exit_json(doapi(url, method, body, failed \/ rejected)),
             seen |-> found,
             zone |-> IF failed \/ rejected THEN z ELSE after]
        Mutate(method, url, body, after) ==
            MutateOr(method, url, body, after, FALSE)
        NoChange ==
            [calls |-> <<viewGet, zoneGet>>, end |-> exit_json(SeedResult),
             seen |-> found, zone |-> z]
        Stop(calls, msg) ==
            [calls |-> calls, end |-> fail_json(msg), seen |-> NotLooked,
             zone |-> z]
    IN  IF CheckModeExit(p) THEN
            [calls |-> <<>>, end |-> exit_json(SeedResult),
             seen |-> NotLooked, zone |-> z]
        ELSE IF ~Truthy(p.name) THEN
            Stop(<<>>, "missing required argument: name")
        ELSE IF ~Truthy(p.nameserver) THEN
            Stop(<<>>, "missing required argument: nameserver")
        ELSE IF views.invalid THEN
            Stop(<<viewGet>>, "nameserver does not exist")
        ELSE IF p.state = "absent" THEN
            IF ZoneAlreadyAbsent(resp)
            THEN NoChange
            ELSE Mutate("DELETE", resp.dnsZones[1].ref,
                        [saveComment |-> SaveComment], Absent)
        ELSE IF ZoneExists(resp) THEN
            LET props == ZoneUpdateProperties(p)
                body == [ref |-> resp.dnsZone.ref, saveComment |-> SaveComment,
                         properties |-> props]
            IN  IF ZoneChange(props, resp.dnsZone)
                THEN MutateOr("PUT", resp.dnsZone.ref, body,
                              PlatformUpdateZone(z, props),
                              PlatformRejectsZoneUpdate(props))
                ELSE NoChange
        ELSE Mutate("POST", <<"dnsZones">>, ZoneCreateBody(p),
                    PlatformCreateZone(ZoneCreateBody(p)))

----------------------------------------------------------------------------
(* The state machine.                                                      *)

Modules == {"props", "user", "zone"}

\* A membership add or remove: PUT or DELETE on <group ref>/<user ref> or
\* <user ref>/<role ref>.
IsMembershipCall(c) ==
    /\ c.verb \in {"PUT", "DELETE"} /\ Len(c.url) = 4
    /\ (c.url[1] = "Groups" \/ c.url[3] = "Roles")

\* The record a finished run leaves.  seen: the resource as the run's
\* lookup found it, Absent, or NotLooked.  rerun: the run repeats the one
\* before it, with the same parameters and nothing else having touched the
\* platform in between; prevClean: that earlier run had no call rejected.
\* recovers: the run repeats a user run one of whose membership calls was
\* rejected; afterRecovery: the run repeats such a recovering run.
Finished(m, p, out, rerun, prevClean) ==
    [status |-> "done", module |-> m, params |-> p, calls |-> out.calls,
     outcome |-> out.end.outcome, result |-> out.end.result,
     seen |-> out.seen,
     rerun |-> rerun, prevClean |-> prevClean,
     recovers |-> rerun /\ \E i \in DOMAIN run.calls :
                              IsMembershipCall(run.calls[i])
                                  /\ run.calls[i].failed,
     afterRecovery |-> rerun /\ run.recovers]

\* No call of the run was rejected.
Clean(r) == \A i \in DOMAIN r.calls : ~r.calls[i].failed

\* The mutating calls of a call log.
Mutations(calls) == SelectSeq(calls, IsMutating)

\* The mutating calls a run may see rejected: any allowed set when
\* `faults`, none otherwise.
Oracle(faults, planned) == IF faults THEN FailSets(planned) ELSE {{}}

PropsStep(p, faults, rerun, prevClean) ==
    LET planned == Len(Mutations(PropsRunModule(propdefs, p, FALSE).calls))
    IN  \E F \in Oracle(faults, planned) :
            LET out == PropsRunModule(propdefs, p, 1 \in F)
            IN  /\ propdefs' = out.defs
                /\ run' = Finished("props", p, out, rerun, prevClean)
                /\ UNCHANGED <<module, user, zone, listing>>

UserStep(p, faults, rerun, prevClean) ==
    \E readFail \in {"none"} \cup
                    (IF p.check_mode \/ ~faults THEN {}
                     ELSE Range(UserReads(p))) :
    \E F \in Oracle(faults, IF readFail = "none"
                            THEN Len(UserPlannedOps(user, p)) ELSE 0) :
        LET out == UserRunModule(user, p, readFail, F)
        IN  /\ user' = out.user
            /\ run' = Finished("user", p, out, rerun, prevClean)
            /\ UNCHANGED <<module, propdefs, zone, listing>>

ZoneStep(p, faults, rerun, prevClean) ==
    LET planned == Len(Mutations(ZoneRunModule(zone, p, FALSE).calls))
    IN  \E F \in Oracle(faults, planned) :
            LET out == ZoneRunModule(zone, p, 1 \in F)
            IN  /\ zone' = out.zone
                /\ run' = Finished("zone", p, out, rerun, prevClean)
                /\ UNCHANGED <<module, propdefs, user, listing>>

Init ==
    /\ module \in Modules
    /\ propdefs = [d \in {DEST2URL[x] : x \in PropsDests} |-> Absent]
    /\ user = Absent
    /\ zone = Absent
    /\ listing = "plain"
    /\ run = Idle

\* A task runs props.py.
RunProps ==
    /\ module = "props" /\ run = Idle
    /\ \E p \in PropsParams : PropsStep(p, TRUE, FALSE, FALSE)

\* A task runs user.py.
RunUser ==
    /\ module = "user" /\ run = Idle
    /\ \E p \in UserParams : UserStep(p, TRUE, FALSE, FALSE)

\* A task runs zone.py.
RunZone ==
    /\ module = "zone" /\ run = Idle
    /\ \E p \in ZoneParams : ZoneStep(p, TRUE, FALSE, FALSE)

\* The same task is run again, with the parameters of the run before it,
\* and the platform rejects none of its calls.  (A repeat the platform
\* does reject calls of is a Return followed by a run.)
Rerun ==
    /\ run # Idle
    /\ CASE module = "props" -> PropsStep(run.params, FALSE, TRUE, Clean(run))
         [] module = "user"  -> UserStep(run.params, FALSE, TRUE, Clean(run))
         [] module = "zone"  -> ZoneStep(run.params, FALSE, TRUE, Clean(run))

\* The result has gone to the caller; the next task may be any.
Return ==
    /\ run # Idle
    /\ run' = Idle
    /\ UNCHANGED <<module, propdefs, user, zone, listing>>

Next == RunProps \/ RunUser \/ RunZone \/ Rerun \/ Return

Spec == Init /\ [][Next]_vars

\* The user handler against a platform that has the user already, with any
\* memberships, and lists membership records of any of the shapes.
ListingInit ==
    /\ module = "user"
    /\ propdefs = [d \in {DEST2URL[x] : x \in PropsDests} |-> Absent]
    /\ zone = Absent
    /\ listing \in MemberShapes
    /\ user \in [ref : {UserRef}, name : {UserName},
                  authenticationType : {"Internal"},
                  groups : SUBSET {GroupCatalog[i].ref : i \in 1..NumGroups},
                  roles : SUBSET {RoleCatalog[i].ref : i \in 1..NumRoles}]
    /\ run = Idle

ListingNext == RunUser \/ Rerun \/ Return

ListingSpec == ListingInit /\ [][ListingNext]_vars

----------------------------------------------------------------------------
(* Properties.                                                             *)

\* A run has finished and its record is in the state.
Ran == run # Idle

\* A run of handler m that got past the check-mode exit.
RanModule(m) == Ran /\ run.module = m /\ ~run.params.check_mode

\* The mutating calls of the last run.
Issued == Mutations(run.calls)

\* How many calls of the last run have this verb and this url.
Count(verb, url) ==
    Cardinality({i \in DOMAIN run.calls :
                    run.calls[i].verb = verb /\ run.calls[i].url = url})

\* The run's lookup reported the resource as not existing.
LocatedAbsent == run.seen = Absent

\* The run's lookup found the resource.
LocatedPresent == run.seen # Absent /\ run.seen # NotLooked

\* C1.  Idempotence: a state=present run that repeats a run none of whose
\* calls was rejected, with nothing else having touched the platform,
\* reports changed = false.
C1_Idempotence ==
    (Ran /\ run.rerun /\ run.prevClean /\ run.params.state = "present")
        => ~run.result.changed

C3_AbsentAbsentNoop ==
    (Ran /\ ~run.params.check_mode /\ run.params.state = "absent"
        /\ LocatedAbsent)
    => (~run.result.changed /\ run.outcome = "ok" /\ Issued = <<>>)

\* A state=absent run of the property handler that found no definition.
C3_Witness ==
    /\ RanModule("props") /\ run.params.state = "absent" /\ LocatedAbsent
    /\ run.calls # <<>>

\* C4.  A state=present run on a property definition that exists and
\* whose stored value equals every field of the desired definition issues
\* no PUT and reports changed = false, for every property type.
C4_MatchingPropertyNoPut ==
    (RanModule("props") /\ run.params.state = "present" /\ LocatedPresent
        /\ \A k \in DOMAIN PropsDefinition(run.params) :
              run.seen[k] = PropsDefinition(run.params)[k])
    => (Issued = <<>> /\ ~run.result.changed)

\* The value the zone comparison is stated to use for a desired field: the
\* zone's top-level field of that name when it has one, its custom
\* property otherwise.
StatedCurrent(dnsZone, name) ==
    IF name \in DOMAIN dnsZone THEN dnsZone[name]
    ELSE DictGet(dnsZone.customProperties, name)

\* C5.  In a state=present run on a zone that exists, a PUT is issued if
\* and only if some desired field differs from the zone's top-level field
\* of its name, or, the zone having no such field, from its custom
\* property.
C5_ZoneDiffDecision ==
    (RanModule("zone") /\ run.params.state = "present" /\ LocatedPresent)
    => LET desired == ZoneUpdateProperties(run.params)
       IN  (Issued # <<>>)
             <=> (\E i \in DOMAIN desired :
                     desired[i].value # StatedCurrent(run.seen, desired[i].name))

\* C6.  Once a mutating call of a run is rejected, the run issues no
\* further call.
C6_StopOnFirstFailure ==
    Ran => \A i \in DOMAIN run.calls :
              (IsMutating(run.calls[i]) /\ run.calls[i].failed)
                  => i = Len(run.calls)

\* C7.  The run reports changed = true if and only if it issued at least
\* one mutating call and none of its mutating calls was rejected.
C7_ChangedIffMutatedCleanly ==
    Ran => (run.result.changed
              <=> (Issued # <<>>
                     /\ \A i \in DOMAIN Issued : ~Issued[i].failed))

\* C8.  A run one of whose mutating calls was rejected ends failed.
C8_NoSilentSuppression ==
    (Ran /\ \E i \in DOMAIN Issued : Issued[i].failed)
        => run.outcome = "failed"

\* The run asks for a group or role name no catalog holds.
AsksUnknownMember ==
    /\ Ran /\ run.module = "user"
    /\ \/ \E n \in run.params.groups :
             n \notin {GroupCatalog[i].name : i \in 1..NumGroups}
       \/ \E n \in run.params.roles :
             n \notin {RoleCatalog[i].name : i \in 1..NumRoles}

\* The run names a nameserver the platform does not have.
AsksUnknownNameserver ==
    /\ Ran /\ run.module = "zone"
    /\ Truthy(run.params.nameserver)
    /\ run.params.nameserver.s \notin NameServers

\* C9, as stated.  A run that asks for an unknown group, role or
\* nameserver fails and issues no mutating call.
C9_UnknownReferenceAborts ==
    (AsksUnknownMember \/ AsksUnknownNameserver)
        => (run.outcome = "failed" /\ Issued = <<>>)

\* C9, amended.  Outside check mode: a state=present user run that asks
\* for an unknown group or role, and a zone run of either state that names
\* an unknown nameserver, fails and issues no mutating call.
C9_UnknownReferenceAbortsPresent ==
    (Ran /\ ~run.params.check_mode
        /\ \/ AsksUnknownMember /\ run.params.state = "present"
           \/ AsksUnknownNameserver)
    => (run.outcome = "failed" /\ Issued = <<>>)

\* A state=present run on an existing user, with password and
\* authentication type given, that asks for an unknown group and stops
\* after its reads.
C9_Witness ==
    /\ RanModule("user") /\ run.params.state = "present"
    /\ AsksUnknownMember /\ LocatedPresent
    /\ Truthy(run.params.password) /\ Truthy(run.params.authentication_type)
    /\ run.outcome = "failed" /\ run.calls # <<>>
    /\ Clean(run)

\* C10.  A state=present user run that lacks password or
\* authentication_type fails with no remote call issued, read or write.
C10_MissingFieldBeforeAnyCall ==
    (RanModule("user") /\ run.params.state = "present"
        /\ (~Truthy(run.params.password)
              \/ ~Truthy(run.params.authentication_type)))
    => (run.outcome = "failed" /\ run.calls = <<>>)

\* The refs of the groups and of the roles the run asks for.
DesiredGroups ==
    {GroupCatalog[i].ref : i \in {j \in 1..NumGroups :
                                    GroupCatalog[j].name \in run.params.groups}}

DesiredRoles ==
    {RoleCatalog[i].ref : i \in {j \in 1..NumRoles :
                                   RoleCatalog[j].name \in run.params.roles}}

WrittenFields(c) ==
    IF "properties" \in DOMAIN c.body
    THEN {c.body.properties[i].name : i \in DOMAIN c.body.properties}
    ELSE IF "propertyDefinition" \in DOMAIN c.body
    THEN DOMAIN c.body.propertyDefinition
    ELSE {}

\* C12.  No PUT issued for an existing resource writes the resource's
\* name, authority or dynamic flag.
C12_ReadOnlyFieldsNotInPut ==
    Ran => \A i \in DOMAIN run.calls :
              (run.calls[i].verb = "PUT" /\ ~IsMembershipCall(run.calls[i]))
                  => WrittenFields(run.calls[i])
                        \cap {"name", "authority", "dynamic"} = {}

\* C13.  In a property run, every POST or PUT payload of a type other
\* than text has neither listItems nor cloudTags, whatever the caller gave;
\* that of type text has both, with the caller's values.
C13_TypeConditionedLists ==
    RanModule("props") =>
        \A i \in DOMAIN run.calls :
            run.calls[i].verb \in {"POST", "PUT"} =>
                LET pd == run.calls[i].body.propertyDefinition
                IN  IF run.params.proptype = "text"
                    THEN /\ {"listItems", "cloudTags"} \subseteq DOMAIN pd
                         /\ pd.listItems = run.params.listitems
                         /\ pd.cloudTags = run.params.cloudtags
                    ELSE {"listItems", "cloudTags"} \cap DOMAIN pd = {}

\* A Boolean definition is updated by a run that was given list items and
\* cloud tags.
C13_Witness ==
    /\ RanModule("props") /\ run.params.proptype = "yesno"
    /\ run.params.listitems # <<>> /\ run.params.cloudtags # <<>>
    /\ \E i \in DOMAIN run.calls : run.calls[i].verb = "PUT"

StatedZoneFields(p) ==
    {<<"name", p.name>>, <<"dynamic", p.dynamic>>,
     <<"authority", p.authority>>,
     <<"type", PyStr(Capitalize(p.servtype))>>}
    \cup (IF p.masters # PyNone /\ Capitalize(p.servtype) # "Master"
          THEN {<<"masters", p.masters>>} ELSE {})
    \cup (IF Truthy(p.adintegrate)
          THEN {<<"adIntegrated", p.adintegrate>>} ELSE {})
    \cup (IF Truthy(p.adreplicationtype)
          THEN {<<"adReplicationType", p.adreplicationtype>>} ELSE {})
    \cup (IF Truthy(p.adpartition)
          THEN {<<"adPartition", p.adpartition>>} ELSE {})

\* The POST body carries the field, in the resource or beside it.
ZoneBodyCarries(body, f) ==
    \/ f[1] \in DOMAIN body.dnsZone /\ body.dnsZone[f[1]] = f[2]
    \/ f[1] \in DOMAIN body /\ body[f[1]] = f[2]

\* The POST of the run carries the desired resource of its kind.
CarriesDesired(c) ==
    CASE run.module = "props" ->
            c.body.propertyDefinition =
                [name |-> run.params.name,
                 type |-> TYPE2TYPE[run.params.proptype],
                 system |-> run.params.system,
                 mandatory |-> run.params.mandatory,
                 readOnly |-> run.params.readonly,
                 multiLine |-> run.params.multiline,
                 defaultValue |-> run.params.defaultvalue]
                @@ (IF run.params.proptype = "text"
                    THEN [cloudTags |-> run.params.cloudtags,
                          listItems |-> run.params.listitems]
                    ELSE <<>>)
      [] run.module = "user" ->
            /\ c.body.user.name = run.params.username
            /\ c.body.user.password = run.params.password
            /\ c.body.user.fullName = run.params.full_name
            /\ c.body.user.authenticationType
                  \in {"Internal", "AD"}
            /\ Lower(c.body.user.authenticationType)
                  = Lower(run.params.authentication_type.s)
            /\ {c.body.user.groups[i].ref : i \in DOMAIN c.body.user.groups}
                  = DesiredGroups
            /\ {c.body.user.roles[i].ref : i \in DOMAIN c.body.user.roles}
                  = DesiredRoles
      [] run.module = "zone" ->
            /\ \A f \in StatedZoneFields(run.params) :
                  ZoneBodyCarries(c.body, f)
            /\ run.params.customproperties # <<>> =>
                  c.body.dnsZone.customProperties = run.params.customproperties

\* The collection path of the run's resource kind.
CollectionUrl ==
    CASE run.module = "props" -> PropsCollectionUrl(run.params)
      [] run.module = "user"  -> <<"Users">>
      [] run.module = "zone"  -> <<"dnsZones">>

\* C15.  A state=present run whose lookup reports the resource as not
\* existing issues exactly one POST, to the collection path of the kind and
\* carrying the normalized desired resource, and no PUT or DELETE on the
\* resource itself.
C15_CreateOnAbsent ==
    (Ran /\ ~run.params.check_mode /\ run.params.state = "present"
        /\ LocatedAbsent)
    => /\ Cardinality({i \in DOMAIN run.calls : run.calls[i].verb = "POST"}) = 1
       /\ \A i \in DOMAIN run.calls :
             /\ run.calls[i].verb = "POST" =>
                   (run.calls[i].url = CollectionUrl
                      /\ CarriesDesired(run.calls[i]))
             /\ run.calls[i].verb \in {"PUT", "DELETE"} =>
                   IsMembershipCall(run.calls[i])

\* C16.  Every mutating call of every run carries saveComment =
\* "Ansible API" in its body.
C16_AuditComment ==
    Ran => \A i \in DOMAIN run.calls :
              IsMutating(run.calls[i]) =>
                  /\ "saveComment" \in DOMAIN run.calls[i].body
                  /\ run.calls[i].body.saveComment = "Ansible API"

\* A user run that removed a membership or deleted the user.
C16_Witness ==
    /\ RanModule("user")
    /\ \E i \in DOMAIN run.calls :
          /\ run.calls[i].verb = "DELETE"
          /\ "saveComment" \in DOMAIN run.calls[i].body
          /\ (IsMembershipCall(run.calls[i]) \/ run.params.state = "absent")

\* The result carries the platform's error, as warnings or as the message
\* of fail_json.
CarriesError ==
    run.result.warnings = Rejected \/ run.result.message = Text(Rejected)

\* C17.  Of a run that issued mutating calls: when none was rejected the
\* message is the response payload of the last one; when one was rejected
\* the result carries that error and not the response of a later call.
C17_MessageLastOrFirstError ==
    (Ran /\ Issued # <<>>) =>
        IF \A i \in DOMAIN Issued : ~Issued[i].failed
        THEN run.result.message
                = Payload(Issued[Len(Issued)].verb, Issued[Len(Issued)].url)
        ELSE /\ CarriesError
             /\ \A i \in DOMAIN Issued :
                   run.result.message # Payload(Issued[i].verb, Issued[i].url)

\* C18.  A run in check mode returns changed = true.
C18_CheckModeReportsChanged ==
    (Ran /\ run.params.check_mode) => run.result.changed

\* C19.  A state=absent zone run that gives the zone name and no
\* nameserver is not rejected for a missing argument.
C19_NameserverOptionalWhenAbsent ==
    (RanModule("zone") /\ run.params.state = "absent"
        /\ Truthy(run.params.name) /\ run.params.nameserver = PyNone)
    => ~(run.outcome = "failed"
           /\ run.result.message
                 = Text("missing required argument: nameserver"))

\* C20.  In a property run, a PUT issued with updateexisting = true
\* carries updateExisting = true; a POST, and a PUT issued with
\* updateexisting = false, carry no updateExisting.
C20_UpdateExistingPassThrough ==
    RanModule("props") =>
        \A i \in DOMAIN run.calls :
            LET c == run.calls[i]
            IN  /\ (c.verb = "PUT" /\ run.params.updateexisting) =>
                      /\ "updateExisting" \in DOMAIN c.body
                      /\ c.body.updateExisting = PyBool(TRUE)
                /\ (c.verb = "POST"
                        \/ (c.verb = "PUT" /\ ~run.params.updateexisting)) =>
                      "updateExisting" \notin DOMAIN c.body

\* C21.  Every PUT or DELETE a user run issues on a path that joins two
\* refs is <group ref>/<user ref> or <user ref>/<role ref>, the group and
\* the role being catalog entries and the user the run's user.
C21_RelationDirection ==
    RanModule("user") =>
        \A i \in DOMAIN run.calls :
            (run.calls[i].verb \in {"PUT", "DELETE"}
                /\ Len(run.calls[i].url) = 4)
            => LET url == run.calls[i].url
               IN  \/ /\ \E g \in 1..NumGroups :
                             SubSeq(url, 1, 2) = GroupCatalog[g].ref
                      /\ SubSeq(url, 3, 4) = UserRef
                   \/ /\ SubSeq(url, 1, 2) = UserRef
                      /\ \E r \in 1..NumRoles :
                             SubSeq(url, 3, 4) = RoleCatalog[r].ref

\* A run that created the user and added it to a group and to a role, or
\* a run on the existing user that removed it from a group and from a role.
C21_Witness ==
    /\ RanModule("user") /\ run.params.state = "present"
    /\ \/ /\ LocatedAbsent
          /\ Count("PUT", GroupCatalog[1].ref \o UserRef) = 1
          /\ Count("PUT", UserRef \o RoleCatalog[1].ref) = 1
       \/ /\ LocatedPresent
          /\ Count("DELETE", GroupCatalog[1].ref \o UserRef) = 1
          /\ Count("DELETE", UserRef \o RoleCatalog[1].ref) = 1

\* C22.  In a state=present run on an existing user, a group or role that
\* is asked for and whose ref is among the memberships the platform lists
\* for the user gets no add and no remove, whatever fields the listed
\* record has.
C22_IdentityByRef ==
    (RanModule("user") /\ run.params.state = "present" /\ LocatedPresent
        /\ run.outcome = "ok")
    => /\ \A i \in 1..NumGroups :
             (GroupCatalog[i].ref \in DesiredGroups
                /\ \E k \in DOMAIN run.seen.groups :
                       run.seen.groups[k].ref = GroupCatalog[i].ref)
             => (Count("PUT", GroupCatalog[i].ref \o run.seen.ref) = 0
                   /\ Count("DELETE", GroupCatalog[i].ref \o run.seen.ref) = 0)
       /\ \A i \in 1..NumRoles :
             (RoleCatalog[i].ref \in DesiredRoles
                /\ \E k \in DOMAIN run.seen.roles :
                       run.seen.roles[k].ref = RoleCatalog[i].ref)
             => (Count("PUT", run.seen.ref \o RoleCatalog[i].ref) = 0
                   /\ Count("DELETE", run.seen.ref \o RoleCatalog[i].ref) = 0)

\* C23.  A state=present run on an existing user whose arguments pass the
\* checks issues exactly one PUT on the user itself, before any membership
\* call, and reports changed = true only if it issued a membership call.
C23_UserPutAlwaysAndUncounted ==
    (RanModule("user") /\ run.params.state = "present" /\ LocatedPresent
        /\ run.outcome = "ok")
    => LET puts == {i \in DOMAIN run.calls :
                       /\ run.calls[i].verb = "PUT"
                       /\ run.calls[i].url = <<"Users">> \o run.seen.ref}
           members == {i \in DOMAIN run.calls :
                           IsMembershipCall(run.calls[i])}
       IN  /\ Cardinality(puts) = 1
           /\ \A i \in puts :
                 /\ run.calls[i].body.ref = run.seen.ref
                 /\ \A j \in members : i < j
           /\ run.result.changed => members # {}

\* A run on an existing user whose memberships already are as asked: the
\* PUT is issued and accepted, and the run reports changed = false.
C23_Witness ==
    /\ RanModule("user") /\ run.params.state = "present" /\ LocatedPresent
    /\ run.outcome = "ok" /\ Clean(run)
    /\ Len(Issued) = 1 /\ Issued[1].verb = "PUT"
    /\ run.seen.groups # <<>>
    /\ ~run.result.changed

\* C24.  In a state=present run on an existing user whose arguments pass
\* the checks: when no groups are given, one DELETE is issued for every
\* group the user is listed in; when no roles are given, one for every
\* role.
C24_NoneGivenRemovesAll ==
    (RanModule("user") /\ run.params.state = "present" /\ LocatedPresent
        /\ run.outcome = "ok")
    => /\ run.params.groups = {} =>
             \A k \in DOMAIN run.seen.groups :
                 Count("DELETE", run.seen.groups[k].ref \o run.seen.ref) = 1
       /\ run.params.roles = {} =>
             \A k \in DOMAIN run.seen.roles :
                 Count("DELETE", run.seen.ref \o run.seen.roles[k].ref) = 1

\* A run given neither groups nor roles, on a user in two groups and a
\* role: three removals.
C24_Witness ==
    /\ RanModule("user") /\ run.params.state = "present" /\ LocatedPresent
    /\ run.outcome = "ok"
    /\ run.params.groups = {} /\ run.params.roles = {}
    /\ Len(run.seen.groups) = 2 /\ Len(run.seen.roles) = 1
    /\ Cardinality({i \in DOMAIN run.calls :
                       run.calls[i].verb = "DELETE"}) = 3

\* C25.  In a state=present run that found no user: every membership call
\* comes after a POST that was accepted and names the ref the platform gave
\* the user; a rejected POST ends the run failed with no membership call;
\* every group add comes before every role add.
C25_CreatePathOrdering ==
    (RanModule("user") /\ run.params.state = "present" /\ LocatedAbsent)
    => LET groupCalls == {i \in DOMAIN run.calls :
                             IsMembershipCall(run.calls[i])
                                 /\ run.calls[i].url[1] = "Groups"}
           roleCalls == {i \in DOMAIN run.calls :
                            IsMembershipCall(run.calls[i])
                                /\ run.calls[i].url[3] = "Roles"}
       IN  /\ \A j \in groupCalls \cup roleCalls :
                 /\ run.calls[j].verb = "PUT"
                 /\ \E i \in 1..(j - 1) :
                       run.calls[i].verb = "POST" /\ ~run.calls[i].failed
                 /\ user # Absent
           /\ \A j \in groupCalls : SubSeq(run.calls[j].url, 3, 4) = user.ref
           /\ \A j \in roleCalls : SubSeq(run.calls[j].url, 1, 2) = user.ref
           /\ (\E i \in DOMAIN run.calls :
                   run.calls[i].verb = "POST" /\ run.calls[i].failed)
                 => (run.outcome = "failed" /\ groupCalls \cup roleCalls = {})
           /\ \A j \in groupCalls : \A k \in roleCalls : j < k

\* A run that created the user and then added it to two groups and a role.
C25_Witness ==
    /\ RanModule("user") /\ run.params.state = "present" /\ LocatedAbsent
    /\ run.outcome = "ok"
    /\ Cardinality({i \in DOMAIN run.calls :
                       IsMembershipCall(run.calls[i])
                           /\ run.calls[i].url[1] = "Groups"}) = 2
    /\ Cardinality({i \in DOMAIN run.calls :
                       IsMembershipCall(run.calls[i])
                           /\ run.calls[i].url[3] = "Roles"}) = 1

\* C26.  A run in check mode issues no call of any verb and leaves the
\* platform as it was.
C26_CheckModeNoCalls ==
    [][(run' # Idle /\ run'.params.check_mode)
          => (run'.calls = <<>> /\ UNCHANGED <<propdefs, user, zone>>)]_vars

\* A check-mode run against a platform that has the resource the run names.
C26_Witness ==
    /\ Ran /\ run.params.check_mode /\ run.calls = <<>>
    /\ \/ run.module = "user" /\ user # Absent
       \/ run.module = "zone" /\ zone # Absent
       \/ run.module = "props" /\ propdefs["DNSZones"] # Absent

====
